---- MODULE Spec2Model ----
(***************************************************************************)
(* Model of the collaborative canvas (src/src/main.ts, src/src/realtime.ts, *)
(* src/src/canvas.ts): per-client operation stacks, the broadcast channel   *)
(* of one room, the drawing_operations table and the join sequence.         *)
(***************************************************************************)
EXTENDS Integers, Sequences, FiniteSets, TLC

\* ---------------------------------------------------------------- bounds
\* the clients of the room
Replicas == {"A", "B", "C"}
\* mouse positions
Points == {1}
\* longest currentPath a stroke collects
MaxPoints == 2
\* cap of RealtimeSync.operationIndex in the one-client specification
MaxIndex == 3
\* cap of the messages sent in the specification of a sender and a receiver
MaxTotal == 3
\* cap of the messages sent in the specifications with joining clients
MaxJoinTotal == 2
\* longest currentPath a stroke collects in the specification of the canvas
MaxPaintPoints == 3
\* cap of the records of a foreign sender a client holds or is about to get
MaxForeign == 2

\* ---------------------------------------------------------------- values
Tools == {"brush", "eraser"}

\* DrawingPath; color and width are constants of the run and are left out
Path(points, tool) == [points |-> points, tool |-> tool]

\* an absent path (undefined)
NoPath == [points |-> <<>>, tool |-> "none"]

\* an absent operation id (undefined)
NoId == <<"none", "", 0>>

\* an absent message
NoMsg == [type |-> "none", userId |-> "", path |-> NoPath,
          operationId |-> NoId, operationIndex |-> 0]

VARIABLES
  operations,        \* CollaborativeCanvas.operations, per client
  undoneOperations,  \* CollaborativeCanvas.undoneOperations, per client
  isMouseDown,       \* setupEventListeners' isMouseDown, per client
  isDrawing,         \* CanvasDrawing.isDrawing
  currentPath,       \* CanvasDrawing.currentPath
  currentTool,       \* CanvasDrawing.currentTool
  painted,           \* the paths stroked on the drawing canvas since its last wipe
  operationIndex,    \* RealtimeSync.operationIndex
  channel,           \* RealtimeSync.channel: "null", "joining", "subscribed"
  pc,                \* position of connectToRoom
  existing,          \* getOrCreateRoom's `existing`
  savedOperations,   \* connectToRoom's `savedOperations`
  pendingSends,      \* send* calls suspended at `await this.channel?.send`
  pendingInserts,    \* saveOperation inserts on their way to the table
  inbox,             \* broadcasts on their way to each client
  lastDelivered,     \* the broadcast the channel handed over last
  log,               \* rows of drawing_operations of the room, insertion order
  rooms              \* the number of rows of rooms with the room's id

vars == <<operations, undoneOperations, isMouseDown, isDrawing, currentPath,
          currentTool, painted, operationIndex, channel, pc, existing,
          savedOperations, pendingSends, pendingInserts, inbox, lastDelivered,
          log, rooms>>

localVars == <<operations, undoneOperations, isMouseDown, isDrawing,
               currentPath, currentTool, painted>>
joinVars == <<pc, existing, savedOperations, rooms>>
netVars == <<inbox, lastDelivered>>

\* ---------------------------------------------------------------- helpers
Front(s) == SubSeq(s, 1, Len(s) - 1)
Last(s) == s[Len(s)]
RemoveAt(s, i) == SubSeq(s, 1, i - 1) \o SubSeq(s, i + 1, Len(s))

\* the paths of a sequence of DrawingOperations
Paths(ops) == [i \in 1..Len(ops) |-> ops[i].path]

\* messages sent so far by all clients
TotalSent == operationIndex["A"] + operationIndex["B"] + operationIndex["C"]

Init ==
  /\ operations = [r \in Replicas |-> <<>>]
  /\ undoneOperations = [r \in Replicas |-> <<>>]
  /\ isMouseDown = [r \in Replicas |-> FALSE]
  /\ isDrawing = [r \in Replicas |-> FALSE]
  /\ currentPath = [r \in Replicas |-> <<>>]
  /\ currentTool = [r \in Replicas |-> "brush"]
  /\ painted = [r \in Replicas |-> <<>>]
  /\ operationIndex = [r \in Replicas |-> 0]
  /\ channel = [r \in Replicas |-> "null"]
  /\ pc = [r \in Replicas |-> "start"]
  /\ existing = [r \in Replicas |-> FALSE]
  /\ savedOperations = [r \in Replicas |-> <<>>]
  /\ pendingSends = [r \in Replicas |-> <<>>]
  /\ pendingInserts = [r \in Replicas |-> <<>>]
  /\ inbox = [r \in Replicas |-> <<>>]
  /\ lastDelivered = [r \in Replicas |-> NoMsg]
  /\ log = <<>>
  /\ rooms = 0

\* ------------------------------------------------------------ realtime.ts
\* the RealtimeMessage a send* call builds
Message(r, type, path, operationId) ==
  [type |-> type, userId |-> r, path |-> path,
   operationId |-> operationId, operationIndex |-> operationIndex[r]]

\* the row saveOperation inserts; operation_index is the counter as it is
\* when saveOperation runs
Row(r, type, path, operationId, index) ==
  [user_id |-> r, operation_type |-> type, operation_index |-> index,
   path |-> path, operationId |-> operationId]

\* Publish on a channel configured with broadcast.self = true
PublishToSelf(r, msg) ==
  [s \in Replicas |->
     IF channel[s] = "subscribed" THEN Append(inbox[s], msg)
     ELSE inbox[s]]

\* channel.send of a broadcast: handed to every other subscribed client
\* (config broadcast.self = false)
Publish(r, msg) ==
  [s \in Replicas |->
     IF s # r /\ channel[s] = "subscribed" THEN Append(inbox[s], msg)
     ELSE inbox[s]]

\* Send that, without a channel, has its row in the table before it returns
SendAppendsAtOnce(r, type, path, operationId) ==
  /\ operationIndex' = [operationIndex EXCEPT ![r] = @ + 1]
  /\ IF channel[r] = "null"
     THEN /\ inbox' = inbox
          /\ pendingSends' = pendingSends
          /\ pendingInserts' = pendingInserts
          /\ log' = Append(log, Row(r, type, path, operationId, operationIndex[r] + 1))
     ELSE /\ inbox' = Publish(r, Message(r, type, path, operationId))
          /\ pendingSends' = [pendingSends EXCEPT ![r] =
               Append(@, [type |-> type, path |-> path, operationId |-> operationId])]
          /\ pendingInserts' = pendingInserts
          /\ log' = log
  /\ UNCHANGED <<channel, lastDelivered>>

\* sendDrawing / sendUndo / sendRedo / sendClear up to the first await:
\* build the message, post-increment operationIndex, hand the message to the
\* channel if there is one.  Without a channel `await undefined` resumes in
\* the same turn of the event loop, so saveOperation issues its insert with
\* the incremented counter before any other handler runs.
Send(r, type, path, operationId) ==
  /\ operationIndex' = [operationIndex EXCEPT ![r] = @ + 1]
  /\ IF channel[r] = "null"
     THEN /\ inbox' = inbox
          /\ pendingSends' = pendingSends
          /\ pendingInserts' = [pendingInserts EXCEPT ![r] =
               Append(@, Row(r, type, path, operationId, operationIndex[r] + 1))]
     ELSE /\ inbox' = Publish(r, Message(r, type, path, operationId))
          /\ pendingSends' = [pendingSends EXCEPT ![r] =
               Append(@, [type |-> type, path |-> path, operationId |-> operationId])]
          /\ pendingInserts' = pendingInserts
  /\ UNCHANGED <<channel, lastDelivered, log>>

\* ResumeSend that returns without calling saveOperation
ResumeSendDropsSave(r) ==
  /\ Len(pendingSends[r]) # 0
  /\ pendingSends' = [pendingSends EXCEPT ![r] = Tail(@)]
  /\ UNCHANGED <<localVars, joinVars, netVars, operationIndex, channel, log,
                 pendingInserts>>

\* the continuation of the oldest suspended send* call after
\* `await this.channel?.send(...)`: saveOperation reads operationIndex now
\* and issues the insert
ResumeSend(r) ==
  /\ Len(pendingSends[r]) # 0
  /\ LET c == Head(pendingSends[r]) IN
       pendingInserts' = [pendingInserts EXCEPT ![r] =
         Append(@, Row(r, c.type, c.path, c.operationId, operationIndex[r]))]
  /\ pendingSends' = [pendingSends EXCEPT ![r] = Tail(@)]
  /\ UNCHANGED <<localVars, joinVars, netVars, operationIndex, channel, log>>

\* the oldest insert of saveOperation reaches the table and is accepted;
\* drawing_operations.room_id references rooms(id), so the room's row is there
InsertLands(r) ==
  /\ Len(pendingInserts[r]) # 0
  /\ rooms # 0
  /\ log' = Append(log, Head(pendingInserts[r]))
  /\ pendingInserts' = [pendingInserts EXCEPT ![r] = Tail(@)]
  /\ UNCHANGED <<localVars, joinVars, netVars, operationIndex, channel, pendingSends>>

\* InsertFails that takes the newest element off operations again
InsertFailsRollsBack(r) ==
  /\ Len(pendingInserts[r]) # 0
  /\ pendingInserts' = [pendingInserts EXCEPT ![r] = Tail(@)]
  /\ operations' = [operations EXCEPT ![r] = IF Len(@) = 0 THEN @ ELSE Front(@)]
  /\ UNCHANGED <<undoneOperations, isMouseDown, isDrawing, currentPath,
                 currentTool, painted, joinVars, netVars, operationIndex, channel,
                 pendingSends, log>>

\* the oldest insert of saveOperation is refused by the table: the awaited
\* call resolves with an error that saveOperation does not look at
InsertFails(r) ==
  /\ Len(pendingInserts[r]) # 0
  /\ pendingInserts' = [pendingInserts EXCEPT ![r] = Tail(@)]
  /\ UNCHANGED <<localVars, joinVars, netVars, operationIndex, channel,
                 pendingSends, log>>

\* channel.send fails for the oldest broadcast on its way to client r: the
\* broadcast is gone; the sender does not look at what send resolved with
BroadcastLost(r) ==
  /\ channel[r] = "subscribed"
  /\ Len(inbox[r]) # 0
  /\ inbox' = [inbox EXCEPT ![r] = Tail(@)]
  /\ UNCHANGED <<localVars, joinVars, lastDelivered, operationIndex, channel,
                 pendingSends, pendingInserts, log>>

\* ------------------------------------------------------ canvas.ts, main.ts
\* CanvasDrawing.generateId: a fresh id; the counter value names it
generateId(r) == <<"gen", r, operationIndex[r]>>

\* the DrawingOperation stopDrawing builds
StrokeOperation(r) ==
  [id |-> generateId(r),
   type |-> IF currentTool[r] = "eraser" THEN "erase" ELSE "draw",
   path |-> Path(currentPath[r], currentTool[r]),
   userId |-> r]

\* CanvasDrawing.drawPath on a canvas that shows the paths cv: a path of
\* fewer than two points is not stroked
drawPath(cv, path) ==
  IF Len(path.points) < 2 THEN cv ELSE Append(cv, path)

RECURSIVE redrawOperations(_)
\* CanvasDrawing.redrawOperations: the canvas is wiped and the operations
\* that have a path are stroked in order
redrawOperations(ops) ==
  IF Len(ops) = 0 THEN <<>>
  ELSE IF Last(ops).path = NoPath THEN redrawOperations(Front(ops))
       ELSE drawPath(redrawOperations(Front(ops)), Last(ops).path)

\* mousedown handler with CanvasDrawing.startDrawing
MouseDown(r, p) ==
  /\ isMouseDown' = [isMouseDown EXCEPT ![r] = TRUE]
  /\ isDrawing' = [isDrawing EXCEPT ![r] = TRUE]
  /\ currentPath' = [currentPath EXCEPT ![r] = <<p>>]
  /\ UNCHANGED <<operations, undoneOperations, currentTool, painted, operationIndex,
                 channel, pendingSends, pendingInserts, log, joinVars, netVars>>

\* mousemove handler while the button is down, with CanvasDrawing.draw:
\* the point is added and the path so far is sent with sendDrawing
MouseMove(r, p) ==
  /\ isMouseDown[r]
  /\ isDrawing[r]
  /\ currentPath' = [currentPath EXCEPT ![r] = Append(@, p)]
  /\ painted' = [painted EXCEPT ![r] =
       drawPath(@, Path(Append(currentPath[r], p), currentTool[r]))]
  /\ Send(r, "draw", Path(Append(currentPath[r], p), currentTool[r]), NoId)
  /\ UNCHANGED <<operations, undoneOperations, isMouseDown, isDrawing,
                 currentTool, joinVars>>

\* FinishStroke without `this.undoneOperations = []`
FinishStrokeKeepsUndone(r) ==
  /\ isMouseDown[r]
  /\ isMouseDown' = [isMouseDown EXCEPT ![r] = FALSE]
  /\ isDrawing' = [isDrawing EXCEPT ![r] = FALSE]
  /\ IF isDrawing[r] /\ Len(currentPath[r]) # 0
     THEN /\ operations' = [operations EXCEPT ![r] =
               Append(@, [id |-> <<"gen", r, operationIndex[r]>>,
                          type |-> IF currentTool[r] = "eraser" THEN "erase" ELSE "draw",
                          path |-> Path(currentPath[r], currentTool[r]),
                          userId |-> r])]
          /\ undoneOperations' = undoneOperations
          /\ currentPath' = [currentPath EXCEPT ![r] = <<>>]
          /\ Send(r, "draw", Path(currentPath[r], currentTool[r]), NoId)
     ELSE /\ UNCHANGED <<operations, undoneOperations, currentPath>>
          /\ UNCHANGED <<operationIndex, channel, pendingSends, pendingInserts,
                         log, netVars>>
  /\ UNCHANGED <<currentTool, painted, joinVars>>

\* what the mouseup and mouseleave handlers do with CanvasDrawing.stopDrawing
FinishStroke(r) ==
  /\ isMouseDown[r]
  /\ isMouseDown' = [isMouseDown EXCEPT ![r] = FALSE]
  /\ isDrawing' = [isDrawing EXCEPT ![r] = FALSE]
  /\ IF isDrawing[r] /\ Len(currentPath[r]) # 0
     THEN /\ operations' = [operations EXCEPT ![r] = Append(@, StrokeOperation(r))]
          /\ undoneOperations' = [undoneOperations EXCEPT ![r] = <<>>]
          /\ currentPath' = [currentPath EXCEPT ![r] = <<>>]
          /\ Send(r, "draw", Path(currentPath[r], currentTool[r]), NoId)
     ELSE /\ UNCHANGED <<operations, undoneOperations, currentPath>>
          /\ UNCHANGED <<operationIndex, channel, pendingSends, pendingInserts,
                         log, netVars>>
  /\ UNCHANGED <<currentTool, painted, joinVars>>

\* mouseup handler
MouseUp(r) == FinishStroke(r)

\* MouseLeave that leaves the button flag, isDrawing and currentPath as
\* they are
MouseLeaveKeepsPath(r) ==
  /\ isMouseDown[r]
  /\ isDrawing[r] /\ Len(currentPath[r]) # 0
  /\ operations' = [operations EXCEPT ![r] = Append(@, StrokeOperation(r))]
  /\ undoneOperations' = [undoneOperations EXCEPT ![r] = <<>>]
  /\ Send(r, "draw", Path(currentPath[r], currentTool[r]), NoId)
  /\ UNCHANGED <<isMouseDown, isDrawing, currentPath, currentTool, painted,
                 joinVars>>

\* mouseleave handler
MouseLeave(r) == FinishStroke(r)

\* brushTool / eraserTool click
SetTool(r, t) ==
  /\ currentTool[r] # t
  /\ currentTool' = [currentTool EXCEPT ![r] = t]
  /\ UNCHANGED <<operations, undoneOperations, isMouseDown, isDrawing,
                 currentPath, painted, operationIndex, channel, pendingSends,
                 pendingInserts, log, joinVars, netVars>>

\* UndoStacks that pushes the tail on undoneOperations without popping it
UndoStacksKeepsTail(ops, und) ==
  IF Len(ops) = 0 THEN <<ops, und>>
  ELSE <<ops, Append(und, Last(ops))>>

\* the pop/push of undo and handleRemoteUndo: <<operations, undoneOperations>>
\* after the tail of operations moved onto undoneOperations
UndoStacks(ops, und) ==
  IF Len(ops) = 0 THEN <<ops, und>>
  ELSE <<Front(ops), Append(und, Last(ops))>>

\* RedoStacks with the element left on undoneOperations
RedoStacksNoPop(ops, und) ==
  IF Len(und) = 0 THEN <<ops, und>>
  ELSE <<Append(ops, Last(und)), und>>

\* the pop/push of redo and handleRemoteRedo
RedoStacks(ops, und) ==
  IF Len(und) = 0 THEN <<ops, und>>
  ELSE <<Append(ops, Last(und)), Front(und)>>

\* Undo without `if (this.operations.length === 0) return`
UndoWithoutGuard(r) ==
  /\ operations' = [operations EXCEPT ![r] = UndoStacks(@, undoneOperations[r])[1]]
  /\ undoneOperations' = [undoneOperations EXCEPT ![r] = UndoStacks(operations[r], @)[2]]
  /\ painted' = [painted EXCEPT ![r] = redrawOperations(operations'[r])]
  /\ Send(r, "undo", NoPath,
          IF Len(operations[r]) = 0 THEN NoId ELSE Last(operations[r]).id)
  /\ UNCHANGED <<isMouseDown, isDrawing, currentPath, currentTool, joinVars>>

\* CollaborativeCanvas.undo (undo button); with operations empty the
\* handler returns at once, which is no step
Undo(r) ==
  /\ Len(operations[r]) # 0
  /\ operations' = [operations EXCEPT ![r] = UndoStacks(@, undoneOperations[r])[1]]
  /\ undoneOperations' = [undoneOperations EXCEPT ![r] = UndoStacks(operations[r], @)[2]]
  /\ painted' = [painted EXCEPT ![r] = redrawOperations(operations'[r])]
  /\ Send(r, "undo", NoPath, Last(operations[r]).id)
  /\ UNCHANGED <<isMouseDown, isDrawing, currentPath, currentTool, joinVars>>

\* Redo without `if (this.undoneOperations.length === 0) return`
RedoWithoutGuard(r) ==
  /\ operations' = [operations EXCEPT ![r] = RedoStacks(@, undoneOperations[r])[1]]
  /\ undoneOperations' = [undoneOperations EXCEPT ![r] = RedoStacks(operations[r], @)[2]]
  /\ painted' = [painted EXCEPT ![r] = redrawOperations(operations'[r])]
  /\ Send(r, "redo", NoPath,
          IF Len(undoneOperations[r]) = 0 THEN NoId ELSE Last(undoneOperations[r]).id)
  /\ UNCHANGED <<isMouseDown, isDrawing, currentPath, currentTool, joinVars>>

\* CollaborativeCanvas.redo (redo button); with undoneOperations empty the
\* handler returns at once, which is no step
Redo(r) ==
  /\ Len(undoneOperations[r]) # 0
  /\ operations' = [operations EXCEPT ![r] = RedoStacks(@, undoneOperations[r])[1]]
  /\ undoneOperations' = [undoneOperations EXCEPT ![r] = RedoStacks(operations[r], @)[2]]
  /\ painted' = [painted EXCEPT ![r] = redrawOperations(operations'[r])]
  /\ Send(r, "redo", NoPath, Last(undoneOperations[r]).id)
  /\ UNCHANGED <<isMouseDown, isDrawing, currentPath, currentTool, joinVars>>

\* Clear without `this.undoneOperations = []`
ClearKeepsUndone(r) ==
  /\ operations' = [operations EXCEPT ![r] = <<>>]
  /\ undoneOperations' = undoneOperations
  /\ painted' = [painted EXCEPT ![r] = <<>>]
  /\ Send(r, "clear", NoPath, NoId)
  /\ UNCHANGED <<isMouseDown, isDrawing, currentPath, currentTool, joinVars>>

\* CollaborativeCanvas.clear (clear button)
Clear(r) ==
  /\ operations' = [operations EXCEPT ![r] = <<>>]
  /\ undoneOperations' = [undoneOperations EXCEPT ![r] = <<>>]
  /\ painted' = [painted EXCEPT ![r] = <<>>]
  /\ Send(r, "clear", NoPath, NoId)
  /\ UNCHANGED <<isMouseDown, isDrawing, currentPath, currentTool, joinVars>>

\* the DrawingOperation handleRealtimeMessage builds from a 'draw' message;
\* its id is the sender and the arrival time, named here by the message
RemoteOperation(m) ==
  [id |-> <<"remote", m.userId, m.operationIndex>>,
   type |-> IF m.path.tool = "eraser" THEN "erase" ELSE "draw",
   path |-> m.path,
   userId |-> m.userId]

\* HandleMessage whose 'undo' case looks for the operation the message names
\* at the tail of operations
HandleMessageUndoById(ops, und, m) ==
  CASE m.type = "draw" ->
         IF m.path # NoPath THEN <<Append(ops, RemoteOperation(m)), und>>
         ELSE <<ops, und>>
    [] m.type = "undo" ->
         IF Len(ops) # 0 /\ Last(ops).id = m.operationId THEN UndoStacks(ops, und)
         ELSE <<ops, und>>
    [] m.type = "redo" -> RedoStacks(ops, und)
    [] m.type = "clear" -> <<<<>>, <<>>>>
    [] OTHER -> <<ops, und>>

\* CollaborativeCanvas.handleRealtimeMessage: <<operations, undoneOperations>>
\* of the client after the message
HandleMessage(ops, und, m) ==
  CASE m.type = "draw" ->
         IF m.path # NoPath THEN <<Append(ops, RemoteOperation(m)), und>>
         ELSE <<ops, und>>
    [] m.type = "undo" -> UndoStacks(ops, und)
    [] m.type = "redo" -> RedoStacks(ops, und)
    [] m.type = "clear" -> <<<<>>, <<>>>>
    [] OTHER -> <<ops, und>>

\* CollaborativeCanvas.handleRealtimeMessage: the canvas of the client after
\* the message
HandlePaint(cv, ops, und, m) ==
  CASE m.type = "draw" ->
         IF m.path # NoPath THEN drawPath(cv, m.path) ELSE cv
    [] m.type = "undo" ->
         IF Len(ops) = 0 THEN cv ELSE redrawOperations(UndoStacks(ops, und)[1])
    [] m.type = "redo" ->
         IF Len(und) = 0 THEN cv ELSE redrawOperations(RedoStacks(ops, und)[1])
    [] m.type = "clear" -> <<>>
    [] OTHER -> cv

\* Deliver that builds the record of a 'draw' with the receiver's own tool
DeliverWithOwnTool(r, i) ==
  /\ channel[r] = "subscribed"
  /\ i \in 1..Len(inbox[r])
  /\ inbox[r][i].userId # r
  /\ LET m == IF inbox[r][i].path = NoPath THEN inbox[r][i]
              ELSE [inbox[r][i] EXCEPT !.path.tool = currentTool[r]]
         st == HandleMessage(operations[r], undoneOperations[r], m) IN
       /\ operations' = [operations EXCEPT ![r] = st[1]]
       /\ undoneOperations' = [undoneOperations EXCEPT ![r] = st[2]]
       /\ painted' = [painted EXCEPT ![r] =
            HandlePaint(@, operations[r], undoneOperations[r], m)]
       /\ lastDelivered' = [lastDelivered EXCEPT ![r] = inbox[r][i]]
  /\ inbox' = [inbox EXCEPT ![r] = RemoveAt(@, i)]
  /\ UNCHANGED <<isMouseDown, isDrawing, currentPath, currentTool,
                 operationIndex, channel, pendingSends, pendingInserts, log,
                 joinVars>>

\* the broadcast handler of RealtimeSync.connect passes message i of the
\* channel to handleRealtimeMessage
Deliver(r, i) ==
  /\ channel[r] = "subscribed"
  /\ i \in 1..Len(inbox[r])
  /\ inbox[r][i].userId # r
  /\ LET m == inbox[r][i]
         st == HandleMessage(operations[r], undoneOperations[r], m) IN
       /\ operations' = [operations EXCEPT ![r] = st[1]]
       /\ undoneOperations' = [undoneOperations EXCEPT ![r] = st[2]]
       /\ painted' = [painted EXCEPT ![r] =
            HandlePaint(@, operations[r], undoneOperations[r], m)]
       /\ lastDelivered' = [lastDelivered EXCEPT ![r] = m]
  /\ inbox' = [inbox EXCEPT ![r] = RemoveAt(@, i)]
  /\ UNCHANGED <<isMouseDown, isDrawing, currentPath, currentTool,
                 operationIndex, channel, pendingSends, pendingInserts, log,
                 joinVars>>

\* the channel hands the client the broadcast it handed over last once more
Redeliver(r) ==
  /\ channel[r] = "subscribed"
  /\ lastDelivered[r] # NoMsg
  /\ LET st == HandleMessage(operations[r], undoneOperations[r], lastDelivered[r]) IN
       /\ operations' = [operations EXCEPT ![r] = st[1]]
       /\ undoneOperations' = [undoneOperations EXCEPT ![r] = st[2]]
  /\ painted' = [painted EXCEPT ![r] =
       HandlePaint(@, operations[r], undoneOperations[r], lastDelivered[r])]
  /\ lastDelivered' = [lastDelivered EXCEPT ![r] = NoMsg]
  /\ UNCHANGED <<isMouseDown, isDrawing, currentPath, currentTool,
                 operationIndex, channel, pendingSends, pendingInserts, log,
                 inbox, joinVars>>

\* a sender on the channel that is not one of the clients followed here
Foreign == "X"

\* broadcasts of the foreign sender: an unknown type, a 'draw' without a
\* path and a 'draw' whose path has no points
ForeignMessages ==
  {[type |-> "bogus", userId |-> Foreign, path |-> NoPath,
    operationId |-> NoId, operationIndex |-> 0],
   [type |-> "draw", userId |-> Foreign, path |-> NoPath,
    operationId |-> NoId, operationIndex |-> 0],
   [type |-> "draw", userId |-> Foreign, path |-> Path(<<>>, "brush"),
    operationId |-> NoId, operationIndex |-> 0]}

\* the records of the foreign sender that client r holds or is about to get
ForeignCount(r) ==
  Len(SelectSeq(inbox[r], LAMBDA m : m.userId = Foreign))
    + Len(SelectSeq(operations[r], LAMBDA op : op.userId = Foreign))
    + Len(SelectSeq(undoneOperations[r], LAMBDA op : op.userId = Foreign))

\* the channel takes broadcast m of the foreign sender for client r; the
\* broadcast handler of RealtimeSync.connect accepts any payload whose
\* userId is not the client's own
ForeignBroadcast(r, m) ==
  /\ channel[r] = "subscribed"
  /\ ForeignCount(r) < MaxForeign
  /\ inbox' = [inbox EXCEPT ![r] = Append(@, m)]
  /\ UNCHANGED <<localVars, joinVars, lastDelivered, operationIndex, channel,
                 pendingSends, pendingInserts, log>>

\* a RealtimeMessage of type t about user s that carries neither a path nor
\* an operation
Notice(t, s) ==
  [type |-> t, userId |-> s, path |-> NoPath, operationId |-> NoId,
   operationIndex |-> 0]

\* the channel takes a 'cursor' broadcast of the foreign sender for client
\* r.  sendCursor of this program tracks the position with presence and
\* broadcasts nothing, so a 'cursor' payload comes from another sender only
ForeignCursor(r) ==
  /\ channel[r] = "subscribed"
  /\ ForeignCount(r) < MaxForeign
  /\ inbox' = [inbox EXCEPT ![r] = Append(@, Notice("cursor", Foreign))]
  /\ UNCHANGED <<localVars, joinVars, lastDelivered, operationIndex, channel,
                 pendingSends, pendingInserts, log>>

\* the presence 'join' and 'sync' handlers of client r for the tracked user
\* s: handleRealtimeMessage is called with a 'user_joined' message
PresenceJoin(r, s) ==
  /\ channel[r] = "subscribed"
  /\ s # r
  /\ s \in Replicas => channel[s] = "subscribed"
  /\ LET m == Notice("user_joined", s)
         st == HandleMessage(operations[r], undoneOperations[r], m) IN
       /\ operations' = [operations EXCEPT ![r] = st[1]]
       /\ undoneOperations' = [undoneOperations EXCEPT ![r] = st[2]]
       /\ painted' = [painted EXCEPT ![r] =
            HandlePaint(@, operations[r], undoneOperations[r], m)]
       /\ lastDelivered' = [lastDelivered EXCEPT ![r] = m]
  /\ UNCHANGED <<isMouseDown, isDrawing, currentPath, currentTool,
                 operationIndex, channel, pendingSends, pendingInserts, log,
                 inbox, joinVars>>

\* PresenceLeave that takes the strokes of the user who left off operations
PresenceLeaveDropsStrokes(r, s) ==
  /\ channel[r] = "subscribed"
  /\ s # r
  /\ operations' = [operations EXCEPT ![r] =
       SelectSeq(@, LAMBDA op : op.userId # s)]
  /\ lastDelivered' = [lastDelivered EXCEPT ![r] = Notice("user_left", s)]
  /\ UNCHANGED <<undoneOperations, painted, isMouseDown, isDrawing,
                 currentPath, currentTool, operationIndex, channel,
                 pendingSends, pendingInserts, log, inbox, joinVars>>

\* the presence 'leave' handler of client r for the key s:
\* handleRealtimeMessage is called with a 'user_left' message
PresenceLeave(r, s) ==
  /\ channel[r] = "subscribed"
  /\ s # r
  /\ LET m == Notice("user_left", s)
         st == HandleMessage(operations[r], undoneOperations[r], m) IN
       /\ operations' = [operations EXCEPT ![r] = st[1]]
       /\ undoneOperations' = [undoneOperations EXCEPT ![r] = st[2]]
       /\ painted' = [painted EXCEPT ![r] =
            HandlePaint(@, operations[r], undoneOperations[r], m)]
       /\ lastDelivered' = [lastDelivered EXCEPT ![r] = m]
  /\ UNCHANGED <<isMouseDown, isDrawing, currentPath, currentTool,
                 operationIndex, channel, pendingSends, pendingInserts, log,
                 inbox, joinVars>>

\* ------------------------------------------------------------------ join
\* SelectRoom of a connectToRoom that subscribes to the channel first
SelectRoomSubscribed(r) ==
  /\ pc[r] = "start"
  /\ existing' = [existing EXCEPT ![r] = (rooms = 1)]
  /\ pc' = [pc EXCEPT ![r] = "selected"]
  /\ channel' = [channel EXCEPT ![r] = "subscribed"]
  /\ UNCHANGED <<localVars, netVars, savedOperations, rooms,
                 operationIndex, pendingSends, pendingInserts, log>>

\* getOrCreateRoom: the select of the room row
SelectRoom(r) ==
  /\ pc[r] = "start"
  /\ existing' = [existing EXCEPT ![r] = (rooms = 1)]
  /\ pc' = [pc EXCEPT ![r] = "selected"]
  /\ UNCHANGED <<localVars, netVars, savedOperations, rooms,
                 operationIndex, channel, pendingSends, pendingInserts, log>>

\* InsertRoom on a table without a primary key
InsertRoomWithoutKey(r) ==
  /\ pc[r] = "selected"
  /\ rooms' = IF existing[r] THEN rooms ELSE rooms + 1
  /\ pc' = [pc EXCEPT ![r] = "room"]
  /\ UNCHANGED <<localVars, netVars, existing, savedOperations,
                 operationIndex, channel, pendingSends, pendingInserts, log>>

\* getOrCreateRoom after the select: the insert is made when the select
\* found no row; the primary key of rooms refuses it when a row with the id
\* is there by now, and the refusal is not looked at
InsertRoom(r) ==
  /\ pc[r] = "selected"
  /\ rooms' = IF ~existing[r] /\ rooms = 0 THEN 1 ELSE rooms
  /\ pc' = [pc EXCEPT ![r] = "room"]
  /\ UNCHANGED <<localVars, netVars, existing, savedOperations,
                 operationIndex, channel, pendingSends, pendingInserts, log>>

RECURSIVE OrderedBy(_, _)
\* the orders in which `order('operation_index', ascending)` can return the
\* rows numbered S of table t: ascending by operation_index, rows with equal
\* operation_index in any order
OrderedBy(t, S) ==
  IF S = {} THEN {<<>>}
  ELSE LET least == {k \in S : \A j \in S : t[k].operation_index <= t[j].operation_index}
       IN UNION {{<<k>> \o rest : rest \in OrderedBy(t, S \ {k})} : k \in least}

\* the DrawingOperation loadOperations maps row k of the table to
LoadedOperation(t, k) ==
  [id |-> <<"row", t[k].user_id, k>>,
   type |-> t[k].operation_type,
   path |-> t[k].path,
   userId |-> t[k].user_id]

\* the values loadOperations can return for table t without an error
LoadResults(t) ==
  {[i \in 1..Len(o) |-> LoadedOperation(t, o[i])] : o \in OrderedBy(t, 1..Len(t))}

\* LoadOperations of a client that subscribed to the channel before its query
LoadOperationsSubscribed(r) ==
  /\ pc[r] = "room"
  /\ \E res \in LoadResults(log) :
       savedOperations' = [savedOperations EXCEPT ![r] = res]
  /\ pc' = [pc EXCEPT ![r] = "loaded"]
  /\ channel' = [channel EXCEPT ![r] = "subscribed"]
  /\ UNCHANGED <<localVars, netVars, existing, rooms,
                 operationIndex, pendingSends, pendingInserts, log>>

\* RealtimeSync.loadOperations: the query runs against the table as it is now
LoadOperations(r) ==
  /\ pc[r] = "room"
  /\ \E res \in LoadResults(log) :
       savedOperations' = [savedOperations EXCEPT ![r] = res]
  /\ pc' = [pc EXCEPT ![r] = "loaded"]
  /\ UNCHANGED <<localVars, netVars, existing, rooms,
                 operationIndex, channel, pendingSends, pendingInserts, log>>

\* RealtimeSync.loadOperations, error branch: returns []
LoadOperationsError(r) ==
  /\ pc[r] = "room"
  /\ savedOperations' = [savedOperations EXCEPT ![r] = <<>>]
  /\ pc' = [pc EXCEPT ![r] = "loadError"]
  /\ UNCHANGED <<localVars, netVars, existing, rooms,
                 operationIndex, channel, pendingSends, pendingInserts, log>>

\* connectToRoom after loadOperations resolved: install the loaded rows and
\* call RealtimeSync.connect, which creates the channel and subscribes
InstallAndConnect(r) ==
  /\ pc[r] \in {"loaded", "loadError"}
  /\ operations' = [operations EXCEPT ![r] = savedOperations[r]]
  /\ painted' = [painted EXCEPT ![r] = redrawOperations(savedOperations[r])]
  /\ channel' = [channel EXCEPT ![r] = "joining"]
  /\ pc' = [pc EXCEPT ![r] = "connected"]
  /\ UNCHANGED <<undoneOperations, isMouseDown, isDrawing, currentPath,
                 currentTool, netVars, existing, savedOperations, rooms,
                 operationIndex, pendingSends, pendingInserts, log>>

\* the subscribe callback with status SUBSCRIBED
Subscribed(r) ==
  /\ channel[r] = "joining"
  /\ channel' = [channel EXCEPT ![r] = "subscribed"]
  /\ UNCHANGED <<localVars, joinVars, netVars, operationIndex, pendingSends,
                 pendingInserts, log>>

\* connectToRoom's catch: an awaited call of getOrCreateRoom or
\* loadOperations rejects and the status becomes 'Connection Error'
JoinThrows(r) ==
  /\ pc[r] \in {"start", "selected", "room"}
  /\ pc' = [pc EXCEPT ![r] = "error"]
  /\ UNCHANGED <<localVars, netVars, existing, savedOperations, rooms,
                 operationIndex, channel, pendingSends, pendingInserts, log>>

\* ------------------------------------------------------- specifications
\* a user action of client r, a stroke having at most n points
UserActionUpTo(r, n) ==
  \/ \E p \in Points : MouseDown(r, p)
  \/ \E p \in Points : Len(currentPath[r]) < n /\ MouseMove(r, p)
  \/ MouseUp(r)
  \/ MouseLeave(r)
  \/ \E t \in Tools : SetTool(r, t)
  \/ Undo(r)
  \/ Redo(r)
  \/ Clear(r)

\* a user action of client r
UserAction(r) == UserActionUpTo(r, MaxPoints)

\* a step of the join of client r
JoinStep(r) ==
  \/ SelectRoom(r)
  \/ InsertRoom(r)
  \/ LoadOperations(r)
  \/ LoadOperationsError(r)
  \/ InstallAndConnect(r)
  \/ Subscribed(r)

\* a step of the saves of client r
SaveStep(r) ==
  \/ ResumeSend(r)
  \/ InsertLands(r)

\* a delivery to client r, in the order the channel took the broadcasts
DeliverStep(r) ==
  \/ Deliver(r, 1)
  \/ Redeliver(r)

\* the state of the clients in J after they joined the empty room one after
\* the other, the others not started
InitJoined(J) ==
  /\ operations = [r \in Replicas |-> <<>>]
  /\ undoneOperations = [r \in Replicas |-> <<>>]
  /\ isMouseDown = [r \in Replicas |-> FALSE]
  /\ isDrawing = [r \in Replicas |-> FALSE]
  /\ currentPath = [r \in Replicas |-> <<>>]
  /\ currentTool = [r \in Replicas |-> "brush"]
  /\ painted = [r \in Replicas |-> <<>>]
  /\ operationIndex = [r \in Replicas |-> 0]
  /\ channel = [r \in Replicas |-> IF r \in J THEN "subscribed" ELSE "null"]
  /\ pc = [r \in Replicas |-> IF r \in J THEN "connected" ELSE "start"]
  /\ existing = [r \in Replicas |-> r \in J /\ r # "A"]
  /\ savedOperations = [r \in Replicas |-> <<>>]
  /\ pendingSends = [r \in Replicas |-> <<>>]
  /\ pendingInserts = [r \in Replicas |-> <<>>]
  /\ inbox = [r \in Replicas |-> <<>>]
  /\ lastDelivered = [r \in Replicas |-> NoMsg]
  /\ log = <<>>
  /\ rooms = IF J # {} THEN 1 ELSE 0

\* one client alone, from the construction of CollaborativeCanvas on
NextLocal ==
  \/ operationIndex["A"] < MaxIndex /\ UserAction("A")
  \/ JoinStep("A")
  \/ SaveStep("A")

SpecLocal == Init /\ [][NextLocal]_vars

\* A and B joined the empty room; A acts, B receives
InitPair == InitJoined({"A", "B"})

NextPair ==
  \/ TotalSent < MaxTotal /\ UserAction("A")
  \/ SaveStep("A")
  \/ DeliverStep("B")

SpecPair == InitPair /\ [][NextPair]_vars

\* A and B joined the empty room; A acts and B receives, also twice, while
\* the sends of A are still suspended
NextStacks ==
  \/ TotalSent < MaxTotal /\ UserAction("A")
  \/ DeliverStep("B")

SpecStacks == InitPair /\ [][NextStacks]_vars

\* A and B joined the empty room, A acts, B receives, C joins at any time
NextJoin ==
  \/ TotalSent < MaxJoinTotal /\ UserAction("A")
  \/ SaveStep("A")
  \/ \E r \in {"B", "C"} : Deliver(r, 1)
  \/ JoinStep("C")

SpecJoin == InitPair /\ [][NextJoin]_vars

\* A and B joined the empty room; both act and save
NextWriters ==
  \/ \E r \in {"A", "B"} : TotalSent < MaxJoinTotal /\ UserAction(r)
  \/ \E r \in {"A", "B"} : SaveStep(r)

SpecWriters == InitPair /\ [][NextWriters]_vars

\* A joined the empty room and acts; B and C join at any time
InitTwoJoin == InitJoined({"A"})

NextTwoJoin ==
  \/ TotalSent < MaxJoinTotal /\ UserAction("A")
  \/ SaveStep("A")
  \/ \E r \in {"B", "C"} : JoinStep(r)

SpecTwoJoin == InitTwoJoin /\ [][NextTwoJoin]_vars

\* the stroke X that C drew and saved before its join
StrokeX == Path(<<1>>, "brush")

\* the table with the row of X alone
LogX == <<Row("C", "draw", StrokeX, NoId, 1)>>

\* C drew X before its join and the row reached the table; then A and B
\* joined the room one after the other and loaded X
InitShared ==
  /\ operations = [r \in Replicas |->
       IF r = "C"
       THEN <<[id |-> <<"gen", "C", 0>>, type |-> "draw", path |-> StrokeX,
               userId |-> "C"]>>
       ELSE <<LoadedOperation(LogX, 1)>>]
  /\ undoneOperations = [r \in Replicas |-> <<>>]
  /\ isMouseDown = [r \in Replicas |-> FALSE]
  /\ isDrawing = [r \in Replicas |-> FALSE]
  /\ currentPath = [r \in Replicas |-> <<>>]
  /\ currentTool = [r \in Replicas |-> "brush"]
  /\ painted = [r \in Replicas |-> <<>>]
  /\ operationIndex = [r \in Replicas |-> IF r = "C" THEN 1 ELSE 0]
  /\ channel = [r \in Replicas |-> IF r = "C" THEN "null" ELSE "subscribed"]
  /\ pc = [r \in Replicas |-> IF r = "C" THEN "start" ELSE "connected"]
  /\ existing = [r \in Replicas |-> r = "B"]
  /\ savedOperations = [r \in Replicas |->
       IF r = "C" THEN <<>> ELSE <<LoadedOperation(LogX, 1)>>]
  /\ pendingSends = [r \in Replicas |-> <<>>]
  /\ pendingInserts = [r \in Replicas |-> <<>>]
  /\ inbox = [r \in Replicas |-> <<>>]
  /\ lastDelivered = [r \in Replicas |-> NoMsg]
  /\ log = LogX
  /\ rooms = 1

\* A and B hold X; both act and both receive, in the order the channel took
\* the broadcasts
NextShared ==
  \/ \E r \in {"A", "B"} :
       operationIndex["A"] + operationIndex["B"] < MaxJoinTotal /\ UserAction(r)
  \/ \E r \in {"A", "B"} : Deliver(r, 1)

SpecShared == InitShared /\ [][NextShared]_vars

\* A joined the empty room and receives; B starts, acts before and after its
\* join and saves; inserts can be refused and broadcasts can be lost
NextSave ==
  \/ operationIndex["B"] < MaxJoinTotal /\ UserAction("B")
  \/ JoinStep("B")
  \/ SaveStep("B")
  \/ InsertFails("B")
  \/ Deliver("A", 1)
  \/ BroadcastLost("A")

SpecSave == InitTwoJoin /\ [][NextSave]_vars

\* as NextSave with a table that accepts every insert
NextAccepting ==
  \/ operationIndex["B"] < MaxJoinTotal /\ UserAction("B")
  \/ JoinStep("B")
  \/ SaveStep("B")
  \/ Deliver("A", 1)
  \/ BroadcastLost("A")

\* the promise of channel.send settles and the event loop runs the
\* continuation; an accepting table completes the insert it was sent
SpecAccepting ==
  /\ InitTwoJoin
  /\ [][NextAccepting]_vars
  /\ WF_vars(ResumeSend("B"))
  /\ WF_vars(InsertLands("B"))

\* one client from its construction on, with the responses of the services
\* to its join arriving or not
NextConnect ==
  \/ operationIndex["A"] < MaxJoinTotal /\ UserAction("A")
  \/ JoinStep("A")
  \/ JoinThrows("A")
  \/ SaveStep("A")

\* the event loop runs the continuation of connectToRoom once loadOperations
\* has resolved; nothing obliges the services to answer
SpecConnect ==
  /\ Init
  /\ [][NextConnect]_vars
  /\ WF_vars(InstallAndConnect("A"))

\* A and B joined the empty room; A acts, B receives the broadcasts of A
\* and of the foreign sender
NextInbound ==
  \/ TotalSent < MaxJoinTotal /\ UserAction("A")
  \/ Deliver("B", 1)
  \/ \E m \in ForeignMessages : ForeignBroadcast("B", m)

SpecInbound == InitPair /\ [][NextInbound]_vars

\* the users presence reports to the clients: the clients and the foreign
\* sender
Users == Replicas \cup {Foreign}

\* A and B joined the empty room; A acts, B receives the broadcasts of A,
\* the 'cursor' broadcasts of the foreign sender and the presence events
NextPresence ==
  \/ TotalSent < MaxJoinTotal /\ UserAction("A")
  \/ Deliver("B", 1)
  \/ ForeignCursor("B")
  \/ \E s \in Users : PresenceJoin("B", s)
  \/ \E s \in Users : PresenceLeave("B", s)

SpecPresence == InitPair /\ [][NextPresence]_vars

\* the three clients start and join the room, their calls interleaved
NextRooms ==
  \E r \in Replicas : JoinStep(r) \/ JoinThrows(r)

SpecRooms == Init /\ [][NextRooms]_vars

\* A and B joined the empty room; A acts, its strokes having up to
\* MaxPaintPoints points and its button pressed only while it is up, and B
\* receives
NextPaint ==
  \/ /\ operationIndex["A"] < MaxIndex
     /\ UserActionUpTo("A", MaxPaintPoints)
     /\ ~(isMouseDown["A"] /\ isMouseDown'["A"] /\ currentPath'["A"] = <<1>>)
  \/ Deliver("B", 1)

SpecPaint == InitPair /\ [][NextPaint]_vars

\* A, B and C joined the empty room; A acts, B and C receive the same
\* broadcasts in the same order and pick their tools
InitFanout == InitJoined(Replicas)

NextFanout ==
  \/ TotalSent < MaxJoinTotal /\ UserAction("A")
  \/ \E r \in {"B", "C"} : Deliver(r, 1)
  \/ \E r \in {"B", "C"} : \E t \in Tools : SetTool(r, t)

SpecFanout == InitFanout /\ [][NextFanout]_vars

\* ================================================================ claims

\* the fold rule of the log: a draw/erase row appends to active and empties
\* undone, a clear row empties both, an undo row moves the tail of active onto
\* undone, a redo row moves the tail of undone back onto active
FoldRow(st, op) ==
  CASE op.type \in {"draw", "erase"} -> <<Append(st[1], op), <<>>>>
    [] op.type = "clear" -> <<<<>>, <<>>>>
    [] op.type = "undo" ->
         IF Len(st[1]) = 0 THEN st
         ELSE <<Front(st[1]), Append(st[2], Last(st[1]))>>
    [] op.type = "redo" ->
         IF Len(st[2]) = 0 THEN st
         ELSE <<Append(st[1], Last(st[2])), Front(st[2])>>
    [] OTHER -> st

RECURSIVE FoldLog(_)
\* the fold of a sequence of loaded rows, left to right
FoldLog(ops) ==
  IF Len(ops) = 0 THEN <<<<>>, <<>>>>
  ELSE FoldRow(FoldLog(Front(ops)), Last(ops))

\* C1: when connectToRoom installs the loaded rows, the client's
\* (operations, undoneOperations) is the fold of the rows it loaded, taken
\* in operation_index order
C1_JoinIsFold ==
  [][\A r \in Replicas :
       InstallAndConnect(r) =>
         <<operations'[r], undoneOperations'[r]>> = FoldLog(savedOperations[r])]_vars

StrokeCompleted(r) ==
  /\ MouseUp(r) \/ MouseLeave(r)
  /\ operations'[r] # operations[r]

\* a 'draw' broadcast is applied to client r in this step
DrawDelivered(r) ==
  \/ /\ Deliver(r, 1)
     /\ inbox[r][1].type = "draw"
     /\ inbox[r][1].path # NoPath
  \/ /\ Redeliver(r)
     /\ lastDelivered[r].type = "draw"
     /\ lastDelivered[r].path # NoPath

\* C3: after a draw or erase is applied to a client, from a local stroke or
\* from a broadcast, the client's undoneOperations is empty
C3_DrawEmptiesUndone ==
  [][\A r \in Replicas :
       (StrokeCompleted(r) \/ DrawDelivered(r)) => undoneOperations'[r] = <<>>]_vars

\* a stroke completion, undo, redo or clear of client r happens in this step
LocalActionApplied(r) ==
  \/ StrokeCompleted(r)
  \/ Undo(r)
  \/ Redo(r)
  \/ Clear(r)

\* the saves of client r that have not reached the table yet
SavesUnderWay(r) == Len(pendingSends[r]) + Len(pendingInserts[r])

C5_RedeliveryIsNoOp ==
  [][\A r \in Replicas :
       Redeliver(r) =>
         /\ operations'[r] = operations[r]
         /\ undoneOperations'[r] = undoneOperations[r]]_vars

\* C6: two clients whose loadOperations ran against the same rows (the table
\* only grows, so the same number of rows) install identical operations
C6_JoinsAgree ==
  \A r, s \in {"B", "C"} :
    (/\ pc[r] = "connected"
     /\ pc[s] = "connected"
     /\ Len(savedOperations[r]) = Len(savedOperations[s]))
    => operations[r] = operations[s]

\* the rows of the table carry strictly increasing operation_index
KeysIncrease(t) ==
  \A i, j \in 1..Len(t) : i < j => t[i].operation_index < t[j].operation_index

\* C7: B was empty and handled the broadcasts of A in send order, C joined
\* from the table holding exactly those operations in that order: B and C
\* hold the same stroke paths in operations and in undoneOperations
C7_LiveEqualsReplay ==
  (/\ pc["C"] = "connected"
   /\ ~isMouseDown["A"]
   /\ SavesUnderWay("A") = 0
   /\ inbox["B"] = <<>>
   /\ Len(log) = operationIndex["A"]
   /\ Len(savedOperations["C"]) = Len(log)
   /\ KeysIncrease(log))
  => /\ Paths(operations["B"]) = Paths(operations["C"])
     /\ Paths(undoneOperations["B"]) = Paths(undoneOperations["C"])

\* C8: no two rows of the room carry the same operation_index and a row
\* inserted later never carries a smaller one
C8_UniqueMonotoneKeys == KeysIncrease(log)

\* C9: a client starts a save (one row) in exactly the steps that apply a
\* stroke completion, undo, redo or clear to its own state, one save each;
\* the points sent while the mouse moves start none
C9_OneRowPerAction ==
  [][\A r \in Replicas :
       /\ LocalActionApplied(r) =>
            (/\ operationIndex'[r] = operationIndex[r] + 1
             /\ SavesUnderWay(r)' = SavesUnderWay(r) + 1)
       /\ (operationIndex'[r] # operationIndex[r]) => LocalActionApplied(r)]_vars

\* C10: a local undo immediately followed by a local redo restores
\* operations and undoneOperations, element for element
C10_UndoRedoInverse ==
  [][\A r \in Replicas :
       Undo(r) =>
         RedoStacks(operations'[r], undoneOperations'[r])
           = <<operations[r], undoneOperations[r]>>]_vars

\* C10 witness: A undid its stroke and then redid it (the undo row and the
\* redo row name the stroke) and holds the stroke in operations again
C10_Witness ==
  /\ Len(operations["A"]) = 1
  /\ undoneOperations["A"] = <<>>
  /\ \E j, k \in 1..Len(log) :
       /\ log[j].operation_type = "undo"
       /\ log[k].operation_type = "redo"
       /\ log[k].operation_index = log[j].operation_index + 1
       /\ log[j].operationId = operations["A"][1].id
       /\ log[k].operationId = operations["A"][1].id

\* a 'clear' broadcast is applied to client r in this step
ClearDelivered(r) ==
  \/ Deliver(r, 1) /\ inbox[r][1].type = "clear"
  \/ Redeliver(r) /\ lastDelivered[r].type = "clear"

\* C11: after a clear is applied to a client, by its clear button or from a
\* broadcast, operations and undoneOperations are both empty, and a redo
\* right after it, local or remote, leaves both empty
C11_ClearAbsorbsRedo ==
  [][\A r \in Replicas :
       (Clear(r) \/ ClearDelivered(r)) =>
         /\ operations'[r] = <<>>
         /\ undoneOperations'[r] = <<>>
         /\ RedoStacks(operations'[r], undoneOperations'[r]) = <<<<>>, <<>>>>]_vars

\* C11 witness: A cleared with an undone stroke; B handled A's stroke, undo
\* and clear, the clear last, and
\* holds nothing
C11_Witness ==
  /\ lastDelivered["B"].type = "clear"
  /\ lastDelivered["B"].operationIndex = 2
  /\ inbox["B"] = <<>>
  /\ \E k \in 1..Len(log) : log[k].operation_type = "undo"
  /\ operations["B"] = <<>>
  /\ undoneOperations["B"] = <<>>

UndoDelivered(r) ==
  \/ Deliver(r, 1) /\ inbox[r][1].type = "undo"
  \/ Redeliver(r) /\ lastDelivered[r].type = "undo"

\* a 'redo' broadcast reaches the handler of client r in this step
RedoDelivered(r) ==
  \/ Deliver(r, 1) /\ inbox[r][1].type = "redo"
  \/ Redeliver(r) /\ lastDelivered[r].type = "redo"

\* C13: an inbound undo moves the tail of the receiver's operations onto its
\* undoneOperations and an inbound redo moves the tail of undoneOperations
\* back, whatever operationId the message carries and whoever authored the
\* tail
C13_RemoteUndoMovesTail ==
  [][\A r \in Replicas :
       /\ (UndoDelivered(r) /\ Len(operations[r]) # 0) =>
            /\ operations'[r] = Front(operations[r])
            /\ undoneOperations'[r] = Append(undoneOperations[r], Last(operations[r]))
       /\ (RedoDelivered(r) /\ Len(undoneOperations[r]) # 0) =>
            /\ operations'[r] = Append(operations[r], Last(undoneOperations[r]))
            /\ undoneOperations'[r] = Front(undoneOperations[r])]_vars

\* C13 witness: B drew one stroke of its own and then handled the undo A
\* sent for X; B's own stroke is what moved
C13_Witness ==
  /\ operationIndex["B"] = 1
  /\ lastDelivered["B"].type = "undo"
  /\ lastDelivered["B"].operationId = <<"row", "C", 1>>
  /\ Len(undoneOperations["B"]) = 1
  /\ undoneOperations["B"][1].userId = "B"
  /\ undoneOperations["B"][1].id # lastDelivered["B"].operationId
  /\ Paths(operations["B"]) = <<StrokeX>>

\* C14: A and B hold operations = [X] and nothing undone; A undoes X while B
\* completes a stroke S, neither having received the other's broadcast; A
\* has handled S and B now handles the undo: afterwards A and B hold the
\* same paths in operations and in undoneOperations
C14_ConcurrentUndoAndStrokeAgree ==
  [][(/\ Deliver("B", 1)
      /\ inbox["B"][1].type = "undo"
      /\ inbox["B"][1].operationId = <<"row", "C", 1>>
      /\ operationIndex["A"] = 1
      /\ operationIndex["B"] = 1
      /\ ~isMouseDown["B"]
      /\ Len(operations["B"]) = 2
      /\ inbox["A"] = <<>>
      /\ lastDelivered["A"].type = "draw") =>
       /\ Paths(operations'["A"]) = Paths(operations'["B"])
       /\ Paths(undoneOperations'["A"]) = Paths(undoneOperations'["B"])]_vars

\* the rows of client r in the table
RowsOf(r) == Len(SelectSeq(log, LAMBDA row : row.user_id = r))

\* C15: a local stroke completion, undo, redo or clear changes operations
\* and undoneOperations in the step of the handler, in which the broadcast
\* and the save are only started: none of them is handled or in the table
\* yet; and no later step of the send or of the save, successful or failed,
\* touches operations or undoneOperations
C15_LocalChangeFirst ==
  [][\A r \in Replicas :
       /\ LocalActionApplied(r) =>
            /\ <<operations'[r], undoneOperations'[r]>>
                 # <<operations[r], undoneOperations[r]>> \/ Clear(r)
            /\ log' = log
            /\ lastDelivered' = lastDelivered
            /\ SavesUnderWay(r)' = SavesUnderWay(r) + 1
            /\ \A s \in Replicas \ {r} :
                 /\ operations'[s] = operations[s]
                 /\ undoneOperations'[s] = undoneOperations[s]
       /\ (ResumeSend(r) \/ InsertLands(r) \/ InsertFails(r) \/ BroadcastLost(r)) =>
            /\ operations' = operations
            /\ undoneOperations' = undoneOperations]_vars

\* C15 witness: B holds its completed stroke while the broadcast is on its
\* way to A and the save has not been issued
C15_Witness ==
  /\ Len(operations["B"]) = 1
  /\ operationIndex["B"] = 1
  /\ Len(pendingSends["B"]) = 1
  /\ Len(inbox["A"]) = 1
  /\ log = <<>>

\* C16: with a table that accepts every insert, every action a client
\* applied gets its row: from some point on B has as many rows in the table
\* as actions sent, whether the broadcasts were handled by A, lost, or not
\* made for lack of a channel
C16_AppliedIsAppended ==
  <>[](RowsOf("B") = operationIndex["B"])

\* C16 witness: both actions of B are in the table while A, subscribed all
\* along, handled none of them and has none on its way
C16_Witness ==
  /\ operationIndex["B"] = MaxJoinTotal
  /\ RowsOf("B") = MaxJoinTotal
  /\ Len(operations["B"]) # 0
  /\ channel["B"] = "subscribed"
  /\ lastDelivered["A"] = NoMsg
  /\ inbox["A"] = <<>>

\* C17: a refused insert leaves operations and undoneOperations of the
\* client as they are
C17_FailedAppendKeepsState ==
  [][\A r \in Replicas :
       InsertFails(r) =>
         /\ operations'[r] = operations[r]
         /\ undoneOperations'[r] = undoneOperations[r]]_vars

\* C17 witness: an insert of B was refused and B still holds its stroke
C17_Witness ==
  /\ RowsOf("B") + SavesUnderWay("B") < operationIndex["B"]
  /\ Len(operations["B"]) # 0

\* C18: once no save of a client is under way, every action it sent has its
\* row in the table: a refused insert was sent again until it was accepted
C18_FailedAppendRetried ==
  \A r \in Replicas :
    SavesUnderWay(r) = 0 => RowsOf(r) = operationIndex[r]

\* C19: connectToRoom reports 'Connected' only if loadOperations returned
\* without an error and the channel is subscribed
C19_ErrorNeverConnected ==
  [][\A r \in Replicas :
       (pc[r] # "connected" /\ pc'[r] = "connected") =>
         /\ pc[r] # "loadError"
         /\ channel'[r] = "subscribed"]_vars

\* C20: connectToRoom ends, with 'Connected' or with 'Connection Error',
\* whether or not the services answer
C20_JoinTerminates ==
  <>(pc["A"] \in {"connected", "error"})

\* the types of RealtimeMessage
MessageTypes ==
  {"draw", "cursor", "undo", "redo", "clear", "user_joined", "user_left"}

\* a broadcast of an unknown type, or a 'draw' without a path or with a path
\* of no points
Malformed(m) ==
  \/ m.type \notin MessageTypes
  \/ m.type = "draw" /\ (m.path = NoPath \/ Len(m.path.points) = 0)

\* C21: handling a malformed broadcast leaves operations and
\* undoneOperations of the receiver as they are, and the receiver stays
\* subscribed for the broadcasts that follow
C21_MalformedDropped ==
  [][\A r \in Replicas :
       (Deliver(r, 1) /\ Malformed(inbox[r][1])) =>
         /\ operations'[r] = operations[r]
         /\ undoneOperations'[r] = undoneOperations[r]
         /\ channel'[r] = "subscribed"]_vars

C23_EmptyUndoRedoNoOp ==
  [][\A r \in Replicas :
       /\ Undo(r) => Len(operations[r]) # 0
       /\ Redo(r) => Len(undoneOperations[r]) # 0
       /\ (UndoDelivered(r) /\ Len(operations[r]) = 0) =>
            /\ operations'[r] = operations[r]
            /\ undoneOperations'[r] = undoneOperations[r]
       /\ (RedoDelivered(r) /\ Len(undoneOperations[r]) = 0) =>
            /\ operations'[r] = operations[r]
            /\ undoneOperations'[r] = undoneOperations[r]]_vars

\* C23 witness: A drew a stroke and undid it; B handled both and then got
\* the undo once more, with nothing left on its operations
C23_Witness ==
  /\ operationIndex["A"] = 2
  /\ inbox["B"] = <<>>
  /\ lastDelivered["B"] = NoMsg
  /\ operations["B"] = <<>>
  /\ Len(undoneOperations["B"]) = 1
  /\ operations["A"] = <<>>
  /\ Len(undoneOperations["A"]) = 1

\* C24: a client handles broadcasts, and its subscription completes, only
\* after connectToRoom installed the loaded rows; when it installs them the
\* client has no channel yet and has handled nothing
C24_InstallBeforeSubscribe ==
  [][\A r \in Replicas :
       /\ (Deliver(r, 1) \/ Redeliver(r) \/ Subscribed(r)) => pc[r] = "connected"
       /\ InstallAndConnect(r) =>
            /\ channel[r] = "null"
            /\ inbox[r] = <<>>
            /\ lastDelivered[r] = NoMsg]_vars

\* C24 witness: C loaded a stroke of A, installed it, subscribed and then
\* handled a broadcast of A
C24_Witness ==
  /\ pc["C"] = "connected"
  /\ Len(savedOperations["C"]) # 0
  /\ lastDelivered["C"] # NoMsg
  /\ lastDelivered["C"].userId = "A"

\* a sequence back to front
Reverse(s) == [i \in 1..Len(s) |-> s[Len(s) + 1 - i]]

VisiblePaths(ops) ==
  SelectSeq(Paths(ops), LAMBDA path : path # NoPath /\ Len(path.points) >= 2)

\* C26: while the mouse button of a client is up, the paths stroked on its
\* canvas since the last wipe are the paths of its operations, in order
\* (paths of fewer than two points, which are never stroked, left aside)
C26_CanvasShowsOperations ==
  \A r \in Replicas :
    ~isMouseDown[r] => painted[r] = VisiblePaths(operations[r])

C28_ClientKeysGrow ==
  \A i, j \in 1..Len(log) :
    (i < j /\ log[i].user_id = log[j].user_id) =>
      log[i].operation_index < log[j].operation_index

\* C29: the strokes a client holds in operations when connectToRoom installs
\* the loaded rows, all drawn by itself before the join ended, are in its
\* operations afterwards
C29_EarlyStrokeSurvivesJoin ==
  [][\A r \in Replicas :
       InstallAndConnect(r) =>
         \A i \in 1..Len(operations[r]) :
           \E k \in 1..Len(operations'[r]) :
             /\ operations'[r][k].path = operations[r][i].path
             /\ operations'[r][k].type = operations[r][i].type]_vars

\* client r starts the send of a message of type t in this step: its
\* counter moves and the newest suspended send, or the newest insert where
\* there is no channel, is of type t
Emits(r, t) ==
  /\ operationIndex'[r] # operationIndex[r]
  /\ \/ /\ Len(pendingSends'[r]) > Len(pendingSends[r])
        /\ Last(pendingSends'[r]).type = t
     \/ /\ Len(pendingInserts'[r]) > Len(pendingInserts[r])
        /\ Last(pendingInserts'[r]).operation_type = t

\* C30: a client starts the send of an undo (redo) only in a step that moves
\* the tail of its operations (undoneOperations) to the other sequence, one
\* send with one save for the move; the undo and redo that find their
\* sequence empty start none
C30_UndoRedoEmitOnMove ==
  [][\A r \in Replicas :
       /\ Emits(r, "undo") =>
            /\ Len(operations[r]) # 0
            /\ operations'[r] = Front(operations[r])
            /\ undoneOperations'[r] = Append(undoneOperations[r], Last(operations[r]))
            /\ operationIndex'[r] = operationIndex[r] + 1
            /\ SavesUnderWay(r)' = SavesUnderWay(r) + 1
       /\ Emits(r, "redo") =>
            /\ Len(undoneOperations[r]) # 0
            /\ operations'[r] = Append(operations[r], Last(undoneOperations[r]))
            /\ undoneOperations'[r] = Front(undoneOperations[r])
            /\ operationIndex'[r] = operationIndex[r] + 1
            /\ SavesUnderWay(r)' = SavesUnderWay(r) + 1]_vars

\* C30 witness: A drew a stroke, undid it and redid it; the sends of the
\* undo and of the redo are under way
C30_Witness ==
  /\ \E k \in 1..Len(pendingSends["A"]) : pendingSends["A"][k].type = "undo"
  /\ \E k \in 1..Len(pendingSends["A"]) : pendingSends["A"][k].type = "redo"
  /\ Len(operations["A"]) = 1
  /\ undoneOperations["A"] = <<>>

\* the rows of client s among the operations a join loaded.  The rows of s
\* reach the table in the order of its sends, so those are its first sends
LoadedFrom(r, s) ==
  Len(SelectSeq(savedOperations[r], LAMBDA op : op.userId = s))

\* C31: no operation reaches a client both as a row its join loaded and as
\* a broadcast: a broadcast of s that client r is about to handle, has just
\* handled or holds as a record of its stacks is a later send of s than
\* every row of s that r loaded
C31_LoadedNotBroadcastAgain ==
  \A r \in Replicas :
    /\ \A i \in 1..Len(inbox[r]) :
         inbox[r][i].userId \in Replicas =>
           inbox[r][i].operationIndex >= LoadedFrom(r, inbox[r][i].userId)
    /\ lastDelivered[r] # NoMsg /\ lastDelivered[r].userId \in Replicas =>
         lastDelivered[r].operationIndex >= LoadedFrom(r, lastDelivered[r].userId)
    /\ \A i \in 1..Len(operations[r]) :
         LET op == operations[r][i] IN
           op.id[1] = "remote" /\ op.userId \in Replicas =>
             op.id[3] >= LoadedFrom(r, op.userId)
    /\ \A i \in 1..Len(undoneOperations[r]) :
         LET op == undoneOperations[r][i] IN
           op.id[1] = "remote" /\ op.userId \in Replicas =>
             op.id[3] >= LoadedFrom(r, op.userId)

\* C31 witness: C loaded the row of A's first send, subscribed and handled
\* the broadcast of A's second
C31_Witness ==
  /\ pc["C"] = "connected"
  /\ LoadedFrom("C", "A") = 1
  /\ lastDelivered["C"].userId = "A"
  /\ lastDelivered["C"].type = "draw"
  /\ Len(operations["C"]) = 2
  /\ operations["C"][1].id[1] = "row"
  /\ operations["C"][2].id[1] = "remote"

StrokeUnderWay(r) ==
  isMouseDown[r] /\ isDrawing[r] /\ Len(currentPath[r]) # 0

\* a mouseup or mouseleave of client r completes a stroke in this step
CompletesStroke(r) ==
  /\ MouseUp(r) \/ MouseLeave(r)
  /\ operations'[r] # operations[r] \/ operationIndex'[r] # operationIndex[r]

C34_NoticesKeepStacks ==
  [][\A r \in Replicas :
       (\/ \E s \in Users : PresenceJoin(r, s)
        \/ \E s \in Users : PresenceLeave(r, s)
        \/ Deliver(r, 1) /\ inbox[r][1].type = "cursor") =>
         /\ operations'[r] = operations[r]
         /\ undoneOperations'[r] = undoneOperations[r]]_vars

\* C34 witness: B holds a stroke of A on operations and has just handled
\* the 'user_left' of A
C34_Witness ==
  /\ lastDelivered["B"] = Notice("user_left", "A")
  /\ Len(operations["B"]) = 1
  /\ operations["B"][1].userId = "A"
  /\ inbox["B"] = <<>>

====
